---------------------------- MODULE Spec2Model ----------------------------
(***************************************************************************)
(* A model of the sports-league backend: the team, league, match and       *)
(* booking controllers over a document store.  Every request handler is    *)
(* split at its awaits: one action per database round trip, the            *)
(* synchronous code that follows a round trip being part of its action.    *)
(* A "serial" specification runs the handlers one request at a time, a     *)
(* "concurrent" one interleaves them.                                       *)
(***************************************************************************)
EXTENDS Integers, Sequences, FiniteSets, TLC

VARIABLES
  ctl,       \* the team controller file that is deployed
  teams,     \* Team collection: id -> document
  tq,        \* createTeam requests: slot -> position, locals, response
  bookings,  \* Booking collection: a sequence of documents
  bq,        \* createBooking / deleteBooking requests
  matches,   \* Match collection: id -> document
  mq,        \* joinMatch / updateMatch requests
  users,     \* User collection: id -> document
  leagues,   \* League collection: id -> document
  lq,        \* joinLeague / updateLeague / deleteLeague / deleteTeam requests
  fx,        \* per team: the deleteTeam writes that have reached the store
  ops,       \* membership requests begun so far, at most MaxOps
  now,       \* the server's clock
  reviews,   \* Review collection: a sequence of documents
  grounds,   \* Ground collection: id -> rating summary
  gq         \* createReview requests

vars == <<ctl, teams, tq, bookings, bq, matches, mq, users, leagues, lq, fx, ops, now,
          reviews, grounds, gq>>

teamVars    == <<ctl, teams, tq>>
bookingVars == <<bookings, bq>>
matchVars   == <<matches, mq, now>>
memberVars  == <<users, leagues, lq, fx, ops>>
reviewVars  == <<reviews, grounds, gq>>

(***************************************************************************)
(* Bounds of the model.                                                    *)
(***************************************************************************)
MaxReq == 2
MaxTeams == 2

Reqs == 1..MaxReq
TeamIds == 1..MaxTeams
NoId == 0

(***************************************************************************)
(* Strings are sequences of one-character strings.                         *)
(***************************************************************************)
IsSpace(c) == c = " "

Lower(c) == IF c = "A" THEN "a" ELSE IF c = "B" THEN "b" ELSE c

ToLowerCase(s) == [i \in 1..Len(s) |-> Lower(s[i])]

RECURSIVE TrimLeft(_)
TrimLeft(s) == IF s # <<>> /\ IsSpace(Head(s)) THEN TrimLeft(Tail(s)) ELSE s

RECURSIVE TrimRight(_)
TrimRight(s) ==
  IF s # <<>> /\ IsSpace(s[Len(s)]) THEN TrimRight(SubSeq(s, 1, Len(s) - 1)) ELSE s

\* String.prototype.trim
Trim(s) == TrimRight(TrimLeft(s))

\* s.replace(/\s+/g, ' ')
RECURSIVE CollapseSpaces(_)
CollapseSpaces(s) ==
  IF s = <<>> THEN <<>>
  ELSE IF IsSpace(Head(s))
       THEN <<" ">> \o CollapseSpaces(TrimLeft(s))
       ELSE <<Head(s)>> \o CollapseSpaces(Tail(s))

\* the class [\w\s-]
IsWordSpaceHyphen(c) == c \in {"a", "b", "A", "B", " ", "-", "_"}

\* s.replace(/[^\w\s-]/g, '')
RECURSIVE StripSpecial(_)
StripSpecial(s) ==
  IF s = <<>> THEN <<>>
  ELSE IF IsWordSpaceHyphen(Head(s))
       THEN <<Head(s)>> \o StripSpecial(Tail(s))
       ELSE StripSpecial(Tail(s))

\* new RegExp(`^${p}$`, 'i') throws on a quantifier with nothing to repeat
RegexValid(p) ==
  \A i \in 1..Len(p) : p[i] = "+" => (i > 1 /\ p[i - 1] # "+")

\* new RegExp(`^${p}$`, 'i').test(s): the characters of p are literals but "+",
\* which repeats the character before it
RECURSIVE RegexTest(_, _)
RegexTest(p, s) ==
  IF p = <<>> THEN s = <<>>
  ELSE IF Len(p) >= 2 /\ p[2] = "+"
       THEN \E k \in 1..Len(s) :
              /\ \A i \in 1..k : Lower(s[i]) = Lower(p[1])
              /\ RegexTest(SubSeq(p, 3, Len(p)), SubSeq(s, k + 1, Len(s)))
       ELSE /\ s # <<>>
            /\ Lower(Head(s)) = Lower(Head(p))
            /\ RegexTest(Tail(p), Tail(s))

(***************************************************************************)
(* Team names and emails a request may carry.                              *)
(***************************************************************************)
NameInputs ==
  { <<"a", "b">>, <<"A", "b">>, <<" ", "a", "b">>, <<"a", " ", " ", "b">>,
    <<"A", " ", "b">>, <<"a", "+">>, <<"A", "+">>, <<"a">>, <<"+", "a">> }

NoEmail == <<>>
EmailInputs == { NoEmail, <<"a", "@", "b", ".", "b">>, <<"A", "@", "b", ".", "b">>, <<"a", "@">> }

\* a password value: the text it was made from and how many times bcrypt.hash
\* has been applied to it
Plain(text) == [text |-> text, hashes |-> 0]
NoPassword == Plain(<<>>)
bcryptHash(p) == [p EXCEPT !.hashes = @ + 1]
\* bcrypt.compare(candidate, stored): stored is the hash of the candidate text
bcryptCompare(candidate, stored) == stored = bcryptHash(Plain(candidate))

GoodPassword == <<"s", "e", "c", "r", "e", "t">>
PasswordInputs ==
  { GoodPassword, <<" ">> \o GoodPassword, <<"a", "b", "c">>, <<>>,
    <<" ", " ", " ", " ", "a", "b">> }

Bodies == [name : NameInputs, email : EmailInputs, password : {GoodPassword}]
PasswordBodies ==
  [name : {<<"a", "b">>, <<"c", "d">>}, email : {NoEmail}, password : PasswordInputs]

MinNameLen == 2
MaxNameLen == 50
MinPasswordLen == 6

\* /^\S+@\S+\.\S+$/.test(s)
EmailTest(s) ==
  /\ \A i \in 1..Len(s) : ~IsSpace(s[i])
  /\ \E i, j \in 1..Len(s) : 1 < i /\ i + 1 < j /\ j < Len(s) /\ s[i] = "@" /\ s[j] = "."

\* validateTeamData: the rules on name, password and email
validateTeamData(body) ==
  /\ Len(Trim(body.name)) >= MinNameLen
  /\ Len(Trim(body.name)) <= MaxNameLen
  /\ Len(body.password) >= MinPasswordLen
  /\ Trim(body.email) # <<>> => EmailTest(Trim(body.email))

\* sanitizeTeamData
sanitizeTeamData(body) ==
  [name |-> CollapseSpaces(Trim(body.name)),
   password |-> Trim(body.password),
   email |-> ToLowerCase(Trim(body.email))]

\* normalizeTeamName
normalizeTeamName(name) ==
  IF name = <<>> THEN <<>>
  ELSE ToLowerCase(StripSpecial(CollapseSpaces(Trim(name))))

(***************************************************************************)
(* The Team collection.                                                    *)
(***************************************************************************)
NoTeam ==
  [exists |-> FALSE, isActive |-> FALSE, name |-> <<>>, email |-> NoEmail,
   captain |-> NoId, players |-> <<>>, currentLeague |-> NoId,
   password |-> NoPassword]

Stored == {t \in TeamIds : teams[t].exists}

\* the schema's setter on name (trim: true) and its minlength and maxlength
SchemaName(name) == Trim(name)
SchemaValid(name) == Len(name) >= MinNameLen /\ Len(name) <= MaxNameLen
\* the schema's minlength on password, applied to the value handed to
\* Team.create; a bcrypt hash is longer than the minimum
SchemaPasswordValid(p) == p.hashes > 0 \/ Len(p.text) >= MinPasswordLen
\* the pre-save hook: a new document's password is hashed
PreSave(p) == bcryptHash(p)
\* comparePassword
comparePassword(team, candidate) == bcryptCompare(candidate, team.password)

\* the unique index on name: an exact comparison of the stored strings
UniqueNameViolated(name) == \E t \in Stored : teams[t].name = name

\* Team.create: the id of the new document
FreshId ==
  CHOOSE t \in TeamIds : ~teams[t].exists /\ \A u \in 1..(t - 1) : teams[u].exists

\* a user's name; team.captain holds the name of a user
UserName(u) == u
CaptainInput == UserName(1)

NewTeam(name, email) ==
  [exists |-> TRUE, isActive |-> TRUE, name |-> name, email |-> email,
   captain |-> CaptainInput, players |-> <<>>, currentLeague |-> NoId,
   password |-> NoPassword]

(***************************************************************************)
(* createTeam.  A slot holds one request: its position, the name and email *)
(* it is about to store and its last response.                             *)
(***************************************************************************)
\* a slot is idle once its request has been answered; a request takes the first
\* idle slot
Idle(q, r) == q[r].pc = "done"
Free(q, r) == Idle(q, r) /\ \A s \in 1..(r - 1) : ~Idle(q, s)
Quiet(q) == \A r \in Reqs : Idle(q, r)
InFlight(q) == Cardinality({r \in Reqs : ~Idle(q, r)})

\* slot r moves to x; resp holds the response sent in the latest step only
Put(q, r, x) ==
  [s \in Reqs |-> IF s = r THEN x ELSE [q[s] EXCEPT !.resp = "none"]]

\* password is the value the controller hands to Team.create, submitted the
\* password of the request body
\* id is the team an updateTeam is about, checkEmail whether its email lookup
\* is still to come, shown whether the response body carries the password,
\* body the ids of the teams a read answers with
TqDone(resp) ==
  [pc |-> "done", name |-> <<>>, email |-> NoEmail, password |-> NoPassword,
   submitted |-> <<>>, id |-> NoId, checkEmail |-> FALSE, shown |-> FALSE,
   body |-> {}, resp |-> resp]
TqAt(pc, name, email) ==
  [pc |-> pc, name |-> name, email |-> email, password |-> NoPassword,
   submitted |-> <<>>, id |-> NoId, checkEmail |-> FALSE, shown |-> FALSE,
   body |-> {}, resp |-> "none"]
\* a response whose body is the document as it is stored
TqDocument(resp) == [TqDone(resp) EXCEPT !.shown = TRUE]
TqWith(pc, name, email, password, submitted) ==
  [TqAt(pc, name, email) EXCEPT !.password = password, !.submitted = submitted]

\* the store has room for the documents of the requests in flight and one more
RoomForTeam == Cardinality(Stored) + InFlight(tq) < MaxTeams

\* teamController.createTeam up to its first query: validate, sanitize,
\* findOne by a case-insensitive pattern built from the name
CreateTeamRegexFind(r, body) ==
  /\ ctl = "regex" /\ Free(tq, r) /\ RoomForTeam
  /\ LET san == sanitizeTeamData(body) IN
       tq' = Put(tq, r,
                IF ~validateTeamData(body) THEN TqDone("400 validation")
                ELSE IF ~RegexValid(san.name) THEN TqDone("500")
                ELSE IF \E t \in Stored : RegexTest(san.name, teams[t].name)
                     THEN TqDone("400 name exists")
                ELSE TqWith(IF san.email # NoEmail THEN "email" ELSE "insert",
                            san.name, san.email, Plain(san.password), body.password))
  /\ UNCHANGED <<ctl, teams, bookingVars, reviewVars, matchVars, memberVars>>

\* the second controller's createTeam: trim, Team.find({}), compare normalized
\* names; the email is only checked for its shape
CreateTeamNormalizeFind(r, body) ==
  /\ ctl \in {"normalize", "document"} /\ Free(tq, r) /\ RoomForTeam
  /\ LET trimmedName == Trim(body.name)
         normalizedNewName == normalizeTeamName(trimmedName)
         duplicate(t) == /\ teams[t].name # <<>> /\ normalizedNewName # <<>>
                         /\ normalizeTeamName(teams[t].name) = normalizedNewName
     IN tq' = Put(tq, r,
                 IF body.password = <<>> THEN TqDone("400 validation")
                 ELSE IF trimmedName = <<>> THEN TqDone("400 validation")
                 ELSE IF \E t \in Stored : duplicate(t) THEN TqDone("400 name exists")
                 ELSE IF body.email # <<>> /\ ~EmailTest(Trim(body.email))
                      THEN TqDone("400 validation")
                 ELSE TqWith("insert", trimmedName, ToLowerCase(Trim(body.email)),
                             bcryptHash(Plain(body.password)), body.password))
  /\ UNCHANGED <<ctl, teams, bookingVars, reviewVars, matchVars, memberVars>>

\* the createTeam that looks the trimmed name up as it is
CreateTeamExactFind(r, body) ==
  /\ ctl = "exact" /\ Free(tq, r) /\ RoomForTeam
  /\ LET trimmedName == Trim(body.name) IN
       tq' = Put(tq, r,
                IF body.password = <<>> THEN TqDone("400 validation")
                ELSE IF trimmedName = <<>> THEN TqDone("400 validation")
                ELSE IF body.email # <<>> /\ ~EmailTest(Trim(body.email))
                     THEN TqDone("400 validation")
                ELSE IF \E t \in Stored : teams[t].name = trimmedName
                     THEN TqDone("400 name exists")
                ELSE TqWith(IF body.email # <<>> THEN "email" ELSE "insert",
                            trimmedName, ToLowerCase(Trim(body.email)),
                            bcryptHash(Plain(Trim(body.password))), body.password))
  /\ UNCHANGED <<ctl, teams, bookingVars, reviewVars, matchVars, memberVars>>

\* findOne({ email }) of the controllers that look the email up
CreateTeamEmailFind(r) ==
  /\ tq[r].pc = "email"
  /\ tq' = Put(tq, r,
              IF \E t \in Stored : teams[t].email = tq[r].email
              THEN TqDone("400 email exists")
              ELSE [tq[r] EXCEPT !.pc = "insert"])
  /\ UNCHANGED <<ctl, teams, bookingVars, reviewVars, matchVars, memberVars>>

\* Team.create and the catch block: schema validation, then the unique index
CreateTeamInsert(r) ==
  /\ tq[r].pc = "insert"
  /\ LET name == SchemaName(tq[r].name) IN
       IF ~SchemaValid(name) \/ ~SchemaPasswordValid(tq[r].password)
       THEN /\ tq' = Put(tq, r,
                        TqDone(IF ctl = "regex" THEN "400 validation" ELSE "500"))
            /\ UNCHANGED teams
       ELSE IF UniqueNameViolated(name)
       THEN /\ tq' = Put(tq, r, TqDone("400 duplicate key"))
            /\ UNCHANGED teams
       ELSE /\ teams' = [teams EXCEPT ![FreshId] =
                              [NewTeam(name, tq[r].email)
                                 EXCEPT !.password = PreSave(tq[r].password)]]
            /\ tq' = Put(tq, r, IF ctl = "document" THEN TqDocument("201")
                                ELSE TqDone("201"))
  /\ UNCHANGED <<ctl, bookingVars, reviewVars, matchVars, memberVars>>

(***************************************************************************)
(* updateTeam.  The variants: "regex" and "normalize" are the two          *)
(* controllers of teamController.js, "document" the controller that        *)
(* answers with the document it wrote, "clean" the controller whose name   *)
(* check is commented out, "router" the handler of router.put('/:id').     *)
(***************************************************************************)
UpdateNames == { <<"a", "b">>, <<"A", "b">>, <<"a", "b", "+">>, <<"c", "d">> }
UpdateEmails == { NoEmail, <<"a", "@", "b", ".", "b">> }
NewPassword == <<"h", "u", "n", "t", "e", "r">>
UpdatePasswords == { <<>>, NewPassword, <<"a", "b", "c">> }
UpdateBodies == [name : UpdateNames, email : UpdateEmails, password : UpdatePasswords]

\* _id: { $ne: id }
Others(id) == Stored \ {id}

\* validateTeamData(req.body, true)
validateTeamUpdate(body) ==
  /\ Len(Trim(body.name)) >= MinNameLen
  /\ Len(Trim(body.name)) <= MaxNameLen
  /\ Trim(body.email) # <<>> => EmailTest(Trim(body.email))

\* the schema's validator on email
SchemaEmailValid(e) == e = <<>> \/ EmailTest(e)

\* the own-id exclusion of updateTeam's duplicate lookups
ExcludesSelf(id) == Others(id)

\* updateTeam of the first controller: Team.findById, validateTeamData,
\* sanitizeTeamData and the decision which lookups follow
UpdateTeamRegexFind(r, id, body) ==
  /\ ctl = "regex" /\ Free(tq, r)
  /\ LET san == sanitizeTeamData(body)
         existingTeam == teams[id]
         checkEmail == san.email # NoEmail /\ san.email # existingTeam.email
     IN tq' = Put(tq, r,
                 IF ~existingTeam.exists THEN TqDone("404")
                 ELSE IF ~validateTeamUpdate(body) THEN TqDone("400 validation")
                 ELSE [TqAt(IF san.name # existingTeam.name THEN "uName"
                            ELSE IF checkEmail THEN "uEmail" ELSE "uWrite",
                            san.name, san.email)
                         EXCEPT !.id = id, !.checkEmail = checkEmail])
  /\ UNCHANGED <<ctl, teams, bookingVars, reviewVars, matchVars, memberVars>>

\* updateTeam of the first controller: Team.findOne({ name: { $regex }, _id: { $ne } })
UpdateTeamNameFind(r) ==
  /\ tq[r].pc = "uName"
  /\ tq' = Put(tq, r,
              IF ~RegexValid(tq[r].name) THEN TqDone("500")
              ELSE IF \E t \in ExcludesSelf(tq[r].id) : RegexTest(tq[r].name, teams[t].name)
              THEN TqDone("400 name exists")
              ELSE [tq[r] EXCEPT !.pc = IF tq[r].checkEmail THEN "uEmail" ELSE "uWrite"])
  /\ UNCHANGED <<ctl, teams, bookingVars, reviewVars, matchVars, memberVars>>

\* updateTeam: Team.findOne({ email, _id: { $ne: id } })
UpdateTeamEmailFind(r) ==
  /\ tq[r].pc = "uEmail"
  /\ tq' = Put(tq, r,
              IF \E t \in ExcludesSelf(tq[r].id) : teams[t].email = tq[r].email
              THEN TqDone("400 email exists")
              ELSE [tq[r] EXCEPT !.pc = "uWrite"])
  /\ UNCHANGED <<ctl, teams, bookingVars, reviewVars, matchVars, memberVars>>

\* updateTeam of the second controller and of the one that answers with the
\* document: the required fields, Team.find({ _id: { $ne: id } }), the comparison
\* of normalized names, the shape of the email
UpdateTeamNormalizeFind(r, id, body) ==
  /\ ctl \in {"normalize", "document"} /\ Free(tq, r)
  /\ LET trimmedName == Trim(body.name)
         normalizedNewName == normalizeTeamName(trimmedName)
         duplicate(t) == /\ teams[t].name # <<>> /\ normalizedNewName # <<>>
                         /\ normalizeTeamName(teams[t].name) = normalizedNewName
     IN tq' = Put(tq, r,
                 IF trimmedName = <<>> THEN TqDone("400 validation")
                 ELSE IF \E t \in ExcludesSelf(id) : duplicate(t)
                 THEN TqDone("400 name exists")
                 ELSE IF body.email # <<>> /\ ~EmailTest(Trim(body.email))
                 THEN TqDone("400 validation")
                 ELSE [TqAt("uWrite", trimmedName, ToLowerCase(Trim(body.email)))
                         EXCEPT !.id = id])
  /\ UNCHANGED <<ctl, teams, bookingVars, reviewVars, matchVars, memberVars>>

\* updateTeam of the controller whose name check is commented out:
\* Team.findById, the required fields, the decision whether the email lookup
\* follows
UpdateTeamCleanFind(r, id, body) ==
  /\ ctl = "clean" /\ Free(tq, r)
  /\ LET cleanTeamName == CollapseSpaces(Trim(body.name))
         cleanEmail == ToLowerCase(Trim(body.email))
         checkEmail == cleanEmail # NoEmail /\ cleanEmail # teams[id].email
     IN tq' = Put(tq, r,
                 IF ~teams[id].exists THEN TqDone("404")
                 ELSE IF Trim(body.name) = <<>> THEN TqDone("400 validation")
                 ELSE [TqAt(IF checkEmail THEN "uEmail" ELSE "uWrite",
                            cleanTeamName, cleanEmail)
                         EXCEPT !.id = id, !.checkEmail = checkEmail])
  /\ UNCHANGED <<ctl, teams, bookingVars, reviewVars, matchVars, memberVars>>

\* runValidators: true
RunsValidators == ctl \in {"regex", "clean", "router"}

\* the catch block of updateTeam on the store's E11000
DuplicateKeyAnswer == IF ctl = "clean" THEN "500 duplicate key" ELSE "400 duplicate key"

\* updateTeam: Team.findByIdAndUpdate(id, updateData), the response and the
\* catch block
UpdateTeamWrite(r) ==
  /\ tq[r].pc = "uWrite"
  /\ LET id == tq[r].id
         name == SchemaName(tq[r].name)
         email == tq[r].email
     IN IF RunsValidators /\ (~SchemaValid(name) \/ ~SchemaEmailValid(email))
        THEN /\ tq' = Put(tq, r, TqDone(IF ctl = "regex" THEN "400 validation"
                                        ELSE "500"))
             /\ UNCHANGED teams
        ELSE IF ~teams[id].exists
        THEN /\ tq' = Put(tq, r, IF ctl = "regex" THEN TqDone("500")
                                 ELSE IF ctl = "clean" THEN TqDone("200")
                                 ELSE TqDone("404"))
             /\ UNCHANGED teams
        ELSE IF \E t \in Others(id) : teams[t].name = name
        THEN /\ tq' = Put(tq, r, TqDone(DuplicateKeyAnswer))
             /\ UNCHANGED teams
        ELSE /\ teams' = [teams EXCEPT ![id].name = name, ![id].email = email]
             /\ tq' = Put(tq, r, IF ctl = "document" THEN TqDocument("200")
                                 ELSE TqDone("200"))
  /\ UNCHANGED <<ctl, bookingVars, reviewVars, matchVars, memberVars>>

\* router.put('/:id'): the express-validator checks, then
\* Team.findByIdAndUpdate(id, { $set: updates }, { runValidators: true }) and
\* res.json(team)
UpdateTeamRouter(r, id, body) ==
  /\ ctl = "router" /\ Free(tq, r)
  /\ LET name == SchemaName(body.name)
         hasPassword == body.password # <<>>
     IN IF body.name = <<>> \/ (hasPassword /\ Len(body.password) < MinPasswordLen)
        THEN tq' = Put(tq, r, TqDone("400 validation")) /\ UNCHANGED teams
        ELSE IF ~SchemaValid(name)
        THEN tq' = Put(tq, r, TqDone("400 validation")) /\ UNCHANGED teams
        ELSE IF ~teams[id].exists
        THEN tq' = Put(tq, r, TqDone("404")) /\ UNCHANGED teams
        ELSE IF \E t \in Others(id) : teams[t].name = name
        THEN tq' = Put(tq, r, TqDone("400 duplicate key")) /\ UNCHANGED teams
        ELSE /\ teams' = [teams EXCEPT
                             ![id].name = name,
                             ![id].password = IF hasPassword THEN Plain(body.password)
                                              ELSE @]
             /\ tq' = Put(tq, r, TqDocument("200"))
  /\ UNCHANGED <<ctl, bookingVars, reviewVars, matchVars, memberVars>>

(***************************************************************************)
(* Bookings.  A date is a count of milliseconds; the server's days start   *)
(* at the multiples of DayMs.                                              *)
(***************************************************************************)
MaxBookings == 2

DayMs == 24 * 3600000
\* the time of day setHours(23, 59, 59, 999) sets
EndOfDay == 23 * 3600000 + 59 * 60000 + 59 * 1000 + 999

Grounds == {1, 2}
GroundInputs == Grounds \cup {3}
DateInputs == {0, EndOfDay, DayMs}
TimeInputs == {"10:00", "11:00"}

\* bookingDate.setHours(h, m, s, ms): the same day at that time of day
SetHours(date, msOfDay) == (date \div DayMs) * DayMs + msOfDay

\* the filter of createBooking's findOne
BookingFilter(b, groundId, date, time) ==
  /\ b.ground = groundId
  /\ b.date >= SetHours(date, 0)
  /\ b.date < SetHours(date, EndOfDay)
  /\ b.time = time
  /\ b.status # "cancelled"

BqDone(resp) == [pc |-> "done", ground |-> NoId, date |-> 0, time |-> "", resp |-> resp]

\* createBooking up to Booking.findOne: Ground.findById reads a collection that
\* no request of this model writes, and is part of the same step
CreateBookingFind(r, groundId, date, time) ==
  /\ Free(bq, r)
  /\ Len(bookings) + InFlight(bq) < MaxBookings
  /\ bq' = Put(bq, r,
              IF groundId \notin Grounds THEN BqDone("404")
              ELSE IF \E i \in 1..Len(bookings) :
                        BookingFilter(bookings[i], groundId, date, time)
                   THEN BqDone("400 already booked")
              ELSE [pc |-> "create", ground |-> groundId, date |-> date,
                    time |-> time, resp |-> "none"])
  /\ UNCHANGED <<bookings, teamVars, matchVars, memberVars, reviewVars>>

\* Booking.create
CreateBookingCreate(r) ==
  /\ bq[r].pc = "create"
  /\ bookings' = Append(bookings,
                        [ground |-> bq[r].ground, date |-> bq[r].date,
                         time |-> bq[r].time, status |-> "confirmed"])
  /\ bq' = Put(bq, r, BqDone("201"))
  /\ UNCHANGED <<teamVars, matchVars, memberVars, reviewVars>>

\* deleteBooking: Booking.findByIdAndDelete
DeleteBooking(r, i) ==
  /\ Free(bq, r)
  /\ i \in 1..Len(bookings)
  /\ bookings' = [j \in 1..(Len(bookings) - 1) |->
                    IF j < i THEN bookings[j] ELSE bookings[j + 1]]
  /\ bq' = Put(bq, r, BqDone("200"))
  /\ UNCHANGED <<teamVars, matchVars, memberVars, reviewVars>>

InitBooking == bookings = <<>> /\ bq = [r \in Reqs |-> BqDone("none")]

(***************************************************************************)
(* Matches.  The callers are the users of the tokens; user 1 is the admin. *)
(* A match's "when" is its date combined with its time, on the clock's     *)
(* scale.  Ids are never used twice.                                       *)
(***************************************************************************)
MaxUsers == 2
MaxNow == 2
MaxCap == 2
DefaultMaxPlayers == 22

\* one match document: the match claims are about a single match
MatchIds == {1}
Users == 1..MaxUsers
Role(u) == IF u = 1 THEN "admin" ELSE "user"

NoMatch ==
  [state |-> "free", maxPlayers |-> 0, joinedPlayers |-> <<>>, status |-> "",
   creator |-> NoId, when |-> 0, time |-> ""]

\* the shapes of a time createMatch's pattern lets through: two-digit and
\* one-digit hours
TimeShapes == {"HH:MM", "H:MM"}

\* new Date(`${date}T${time}:00`): the string is a date-time only with a
\* two-digit hour; otherwise the result is an invalid date
InvalidDate == 0 - 1
matchDateTime(match) == IF match.time = "HH:MM" THEN match.when ELSE InvalidDate
\* a < b on dates: false when a is an invalid date
DateBefore(a, b) == a # InvalidDate /\ a < b

Live(m) == m \in MatchIds /\ matches[m].state = "live"

NoUpdate == [status |-> "", maxPlayers |-> 0]

MqDone(resp) ==
  [pc |-> "done", match |-> NoId, user |-> NoId, upd |-> NoUpdate, resp |-> resp]
MqAt(pc, m, u, upd) ==
  [pc |-> pc, match |-> m, user |-> u, upd |-> upd, resp |-> "none"]

\* createMatch: the role check, the default capacity, the date check, Match.create
CreateMatchAt(r, u, maxPlayers, when, time) ==
  /\ Free(mq, r)
  /\ \E m \in MatchIds : matches[m].state = "free"
  /\ LET m == CHOOSE x \in MatchIds :
                /\ matches[x].state = "free"
                /\ \A y \in 1..(x - 1) : matches[y].state # "free"
         finalMaxPlayers == IF maxPlayers > 0 THEN maxPlayers ELSE DefaultMaxPlayers
     IN IF Role(u) # "admin"
        THEN mq' = Put(mq, r, MqDone("403")) /\ UNCHANGED matches
        ELSE IF when < now
        THEN mq' = Put(mq, r, MqDone("400 past")) /\ UNCHANGED matches
        ELSE /\ matches' = [matches EXCEPT ![m] =
                              [state |-> "live", maxPlayers |-> finalMaxPlayers,
                               joinedPlayers |-> <<>>, status |-> "upcoming",
                               creator |-> u, when |-> when, time |-> time]]
             /\ mq' = Put(mq, r, MqDone("201"))
  /\ UNCHANGED <<now, teamVars, bookingVars, reviewVars, memberVars>>

\* createMatch with a time of two-digit hour
CreateMatch(r, u, maxPlayers, when) == CreateMatchAt(r, u, maxPlayers, when, "HH:MM")

\* joinMatch's capacity check
MatchFull_Above(m) == Len(matches[m].joinedPlayers) > matches[m].maxPlayers
MatchFull(m) == Len(matches[m].joinedPlayers) >= matches[m].maxPlayers

\* joinMatch up to Match.findById and the checks on the document it returned
JoinMatchFind(r, u, m, bodyOk) ==
  /\ Free(mq, r)
  /\ mq' = Put(mq, r,
              IF ~bodyOk THEN MqDone("400 player name and contact info required")
              ELSE IF ~Live(m) THEN MqDone("404")
              ELSE IF MatchFull(m) THEN MqDone("400 match is already full")
              ELSE IF \E i \in 1..Len(matches[m].joinedPlayers) :
                        matches[m].joinedPlayers[i] = u
                   THEN MqDone("400 already joined")
              ELSE IF matches[m].status # "upcoming" THEN MqDone("400 not upcoming")
              ELSE IF DateBefore(matchDateTime(matches[m]), now)
              THEN MqDone("400 started or passed")
              ELSE MqAt("push", m, u, NoUpdate))
  /\ UNCHANGED <<matches, now, teamVars, bookingVars, reviewVars, memberVars>>

\* joinMatch's Match.findByIdAndUpdate(id, { $push: { joinedPlayers } })
JoinMatchPush(r) ==
  /\ mq[r].pc = "push"
  /\ LET m == mq[r].match IN
       matches' = IF Live(m)
                  THEN [matches EXCEPT ![m].joinedPlayers = Append(@, mq[r].user)]
                  ELSE matches
  /\ mq' = Put(mq, r, MqDone("200"))
  /\ UNCHANGED <<now, teamVars, bookingVars, reviewVars, memberVars>>

\* the creator-or-admin check of updateMatch and deleteMatch
CreatorOrAdmin_Anyone(m, u) == TRUE
CreatorOrAdmin(m, u) == matches[m].creator = u \/ Role(u) = "admin"

\* updateMatch up to Match.findById, the creator-or-admin check and updateData;
\* maxPlayers is taken only along with a matchType
UpdateMatchFind(r, u, m, status, matchType, maxPlayers) ==
  /\ Free(mq, r)
  /\ mq' = Put(mq, r,
              IF ~Live(m) THEN MqDone("404")
              ELSE IF ~CreatorOrAdmin(m, u) THEN MqDone("403")
              ELSE MqAt("update", m, u,
                        [status |-> status,
                         maxPlayers |-> IF matchType THEN maxPlayers ELSE 0]))
  /\ UNCHANGED <<matches, now, teamVars, bookingVars, reviewVars, memberVars>>

\* updateMatch's Match.findByIdAndUpdate(id, updateData)
UpdateMatchWrite(r) ==
  /\ mq[r].pc = "update"
  /\ LET m == mq[r].match
         upd == mq[r].upd
     IN matches' =
          IF Live(m)
          THEN [matches EXCEPT
                  ![m].status = IF upd.status # "" THEN upd.status ELSE @,
                  ![m].maxPlayers = IF upd.maxPlayers # 0 THEN upd.maxPlayers ELSE @]
          ELSE matches
  /\ mq' = Put(mq, r, MqDone("200"))
  /\ UNCHANGED <<now, teamVars, bookingVars, reviewVars, memberVars>>

\* deleteMatch up to Match.findById and the creator-or-admin check
DeleteMatchFind(r, u, m) ==
  /\ Free(mq, r)
  /\ mq' = Put(mq, r,
              IF ~Live(m) THEN MqDone("404")
              ELSE IF ~CreatorOrAdmin(m, u) THEN MqDone("403")
              ELSE MqAt("delete", m, u, NoUpdate))
  /\ UNCHANGED <<matches, now, teamVars, bookingVars, reviewVars, memberVars>>

\* deleteMatch's Match.findByIdAndDelete(id)
DeleteMatchDelete(r) ==
  /\ mq[r].pc = "delete"
  /\ matches' = [matches EXCEPT ![mq[r].match] = [NoMatch EXCEPT !.state = "gone"]]
  /\ mq' = Put(mq, r, MqDone("200"))
  /\ UNCHANGED <<now, teamVars, bookingVars, reviewVars, memberVars>>

\* time passes
Tick ==
  /\ now < MaxNow
  /\ now' = now + 1
  /\ UNCHANGED <<matches, mq, teamVars, bookingVars, reviewVars, memberVars>>

InitMatch ==
  /\ matches = [m \in MatchIds |-> NoMatch]
  /\ mq = [r \in Reqs |-> MqDone("none")]
  /\ now = 1

(***************************************************************************)
(* Users, leagues and team membership: joinLeague, updateLeague,           *)
(* deleteLeague and the variants of deleteTeam.  A handler is one action   *)
(* per database round trip.  fx[t] records which of deleteTeam's effects   *)
(* have been applied to team t.                                            *)
(***************************************************************************)
MaxLeagues == 2
MaxOps == 4
LeagueIds == 1..MaxLeagues

Effects == {"users", "leagues", "team"}

MaxDay == 3
\* a date of a request body: absent, a string isValidDate refuses, or a day
NoDate == 0
BadDate == 0 - 1
LeagueDateInputs == {NoDate, BadDate} \cup 1..MaxDay

\* a league document: never created ("free"), stored ("live") or deleted ("gone")
NoLeague ==
  [state |-> "gone", status |-> "", teams |-> <<>>, startDate |-> NoDate,
   endDate |-> NoDate]
FreeLeague == [NoLeague EXCEPT !.state = "free"]

\* isValidDate
isValidDate(d) == d # NoDate /\ d # BadDate

\* the date-order check of createLeague and updateLeague: end <= start
EndNotAfterStart_Before(start, end) == end < start
EndNotAfterStart(start, end) == end <= start
LiveLeague(l) == leagues[l].state = "live"

Range(s) == {s[i] : i \in 1..Len(s)}
\* $pull: every occurrence of t leaves the array
Pull(s, t) == SelectSeq(s, LAMBDA x : x # t)

\* seen: what the request read of the roster before its later checks
LqDone(resp) ==
  [pc |-> "done", user |-> NoId, team |-> NoId, league |-> NoId, status |-> "",
   seen |-> FALSE, dates |-> <<NoDate, NoDate>>, resp |-> resp]
LqAt(pc, u, t, l, st) ==
  [pc |-> pc, user |-> u, team |-> t, league |-> l, status |-> st,
   seen |-> FALSE, dates |-> <<NoDate, NoDate>>, resp |-> "none"]

\* joinLeague: User.findById(userId).populate('team') and the check on user.team
JoinLeagueUserFind(r, u, l) ==
  /\ Free(lq, r)
  /\ ops < MaxOps
  /\ lq' = Put(lq, r,
              IF users[u].team = NoId \/ ~teams[users[u].team].exists
              THEN LqDone("400 must be part of a team")
              ELSE LqAt("jlTeam", u, users[u].team, l, ""))
  /\ ops' = ops + 1
  /\ UNCHANGED <<users, leagues, fx, teamVars, bookingVars, reviewVars, matchVars>>

\* joinLeague: Team.findById, the captain check and the currentLeague check
JoinLeagueTeamFind(r) ==
  /\ lq[r].pc = "jlTeam"
  /\ LET team == teams[lq[r].team] IN
       lq' = Put(lq, r,
                IF ~team.exists THEN LqDone("404 team")
                ELSE IF team.captain # UserName(lq[r].user) THEN LqDone("403 captain")
                ELSE IF team.currentLeague # NoId THEN LqDone("400 another league")
                ELSE [lq[r] EXCEPT !.pc = "jlLeague"])
  /\ UNCHANGED <<users, leagues, fx, ops, teamVars, bookingVars, reviewVars, matchVars>>

\* joinLeague: League.findById, the roster check and the status check
JoinLeagueLeagueFind(r) ==
  /\ lq[r].pc = "jlLeague"
  /\ LET league == leagues[lq[r].league] IN
       lq' = Put(lq, r,
                IF league.state # "live" THEN LqDone("404 league")
                ELSE IF lq[r].team \in Range(league.teams)
                THEN LqDone("400 already in this league")
                ELSE IF league.status = "completed" THEN LqDone("400 completed league")
                ELSE [lq[r] EXCEPT !.pc = "jlPush"])
  /\ UNCHANGED <<users, leagues, fx, ops, teamVars, bookingVars, reviewVars, matchVars>>

\* joinLeague: League.findByIdAndUpdate(id, { $push: { teams } })
JoinLeaguePush(r) ==
  /\ lq[r].pc = "jlPush"
  /\ LET l == lq[r].league IN
       leagues' = IF LiveLeague(l)
                  THEN [leagues EXCEPT ![l].teams = Append(@, lq[r].team)]
                  ELSE leagues
  /\ lq' = Put(lq, r, [lq[r] EXCEPT !.pc = "jlSet"])
  /\ UNCHANGED <<users, fx, ops, teamVars, bookingVars, reviewVars, matchVars>>

\* joinLeague: Team.findByIdAndUpdate(team._id, { currentLeague: id }), then the
\* read of the league for the response
JoinLeagueSetCurrent(r) ==
  /\ lq[r].pc = "jlSet"
  /\ LET t == lq[r].team IN
       teams' = IF teams[t].exists
                THEN [teams EXCEPT ![t].currentLeague = lq[r].league]
                ELSE teams
  /\ lq' = Put(lq, r, LqDone("200 joined"))
  /\ UNCHANGED <<ctl, tq, users, leagues, fx, ops, bookingVars, reviewVars, matchVars>>

\* updateLeague: League.findById, the date checks, status || league.status
UpdateLeagueFind(r, l, status, startDate, endDate) ==
  /\ Free(lq, r)
  /\ ops < MaxOps
  /\ LET league == leagues[l]
         start == IF startDate # NoDate THEN startDate ELSE league.startDate
         end == IF endDate # NoDate THEN endDate ELSE league.endDate
     IN lq' = Put(lq, r,
                 IF ~LiveLeague(l) THEN LqDone("404 league")
                 ELSE IF startDate # NoDate /\ ~isValidDate(startDate)
                 THEN LqDone("400 date format")
                 ELSE IF endDate # NoDate /\ ~isValidDate(endDate)
                 THEN LqDone("400 date format")
                 ELSE IF EndNotAfterStart(start, end) THEN LqDone("400 dates")
                 ELSE [LqAt("ulWrite", NoId, NoId, l,
                            IF status # "" THEN status ELSE league.status)
                         EXCEPT !.dates = <<start, end>>])
  /\ ops' = ops + 1
  /\ UNCHANGED <<users, leagues, fx, teamVars, bookingVars, reviewVars, matchVars>>

\* updateLeague: League.findByIdAndUpdate(id, { ..., startDate, endDate, status })
UpdateLeagueWrite(r) ==
  /\ lq[r].pc = "ulWrite"
  /\ LET l == lq[r].league IN
       leagues' = IF LiveLeague(l)
                  THEN [leagues EXCEPT ![l].status = lq[r].status,
                                       ![l].startDate = lq[r].dates[1],
                                       ![l].endDate = lq[r].dates[2]]
                  ELSE leagues
  /\ lq' = Put(lq, r, LqDone("200 updated"))
  /\ UNCHANGED <<users, fx, ops, teamVars, bookingVars, reviewVars, matchVars>>

\* createLeague: the required fields, the date checks, League.create with the
\* status the start date gives
CreateLeague(r, hasName, startDate, endDate) ==
  /\ Free(lq, r)
  /\ \E l \in LeagueIds : leagues[l].state = "free"
  /\ LET l == CHOOSE x \in LeagueIds :
                /\ leagues[x].state = "free"
                /\ \A y \in 1..(x - 1) : leagues[y].state # "free"
     IN IF ~hasName \/ startDate = NoDate \/ endDate = NoDate
        THEN lq' = Put(lq, r, LqDone("400 missing fields")) /\ UNCHANGED leagues
        ELSE IF ~isValidDate(startDate) \/ ~isValidDate(endDate)
        THEN lq' = Put(lq, r, LqDone("400 date format")) /\ UNCHANGED leagues
        ELSE IF EndNotAfterStart(startDate, endDate)
        THEN lq' = Put(lq, r, LqDone("400 end before start")) /\ UNCHANGED leagues
        ELSE /\ leagues' = [leagues EXCEPT ![l] =
                              [state |-> "live",
                               status |-> IF startDate <= now THEN "active"
                                          ELSE "upcoming",
                               teams |-> <<>>, startDate |-> startDate,
                               endDate |-> endDate]]
             /\ lq' = Put(lq, r, LqDone("201 league"))
  /\ UNCHANGED <<users, fx, ops, teamVars, bookingVars, reviewVars, matchVars>>

\* deleteLeague: League.findById
DeleteLeagueFind(r, l) ==
  /\ Free(lq, r)
  /\ ops < MaxOps
  /\ lq' = Put(lq, r,
              IF ~LiveLeague(l) THEN LqDone("404 league")
              ELSE LqAt("dlUnset", NoId, NoId, l, ""))
  /\ ops' = ops + 1
  /\ UNCHANGED <<users, leagues, fx, teamVars, bookingVars, reviewVars, matchVars>>

\* deleteLeague: Team.updateMany({ currentLeague: id }, { $unset: { currentLeague } })
DeleteLeagueUnset(r) ==
  /\ lq[r].pc = "dlUnset"
  /\ teams' = [t \in TeamIds |->
                 IF teams[t].exists /\ teams[t].currentLeague = lq[r].league
                 THEN [teams[t] EXCEPT !.currentLeague = NoId]
                 ELSE teams[t]]
  /\ lq' = Put(lq, r, [lq[r] EXCEPT !.pc = "dlDelete"])
  /\ UNCHANGED <<ctl, tq, users, leagues, fx, ops, bookingVars, reviewVars, matchVars>>

\* deleteLeague: League.findByIdAndDelete(id)
DeleteLeagueDelete(r) ==
  /\ lq[r].pc = "dlDelete"
  /\ leagues' = [leagues EXCEPT ![lq[r].league] = NoLeague]
  /\ lq' = Put(lq, r, LqDone("200 league deleted"))
  /\ UNCHANGED <<users, fx, ops, teamVars, bookingVars, reviewVars, matchVars>>

\* the three effects of deleteTeam on the documents
UnsetUsersTeam(t) ==
  [u \in Users |-> IF users[u].team = t THEN [users[u] EXCEPT !.team = NoId]
                   ELSE users[u]]
PullFromLeagues(t) ==
  [l \in LeagueIds |-> IF LiveLeague(l)
                       THEN [leagues[l] EXCEPT !.teams = Pull(@, t)]
                       ELSE leagues[l]]

\* deleteTeam: Team.findById; the variant in force decides what follows; the
\* "noCheck" variant goes to its writes without reading the team; "regex" and
\* "txn" name the same controller, the one of createTeam's regex lookup
DeleteTeamFind(r, t) ==
  /\ Free(lq, r)
  /\ ops < MaxOps
  /\ lq' = Put(lq, r,
              IF ctl # "noCheck" /\ ~teams[t].exists THEN LqDone("404 team")
              ELSE LqAt(IF ctl \in {"txn", "regex"} THEN "dtTxn" ELSE "dtUsers",
                        NoId, t, NoId, ""))
  /\ ops' = ops + 1
  /\ UNCHANGED <<users, leagues, fx, teamVars, bookingVars, reviewVars, matchVars>>

\* deleteTeam, transactional variant: session.withTransaction commits the three
\* writes together; the team is marked inactive
DeleteTeamTxn(r) ==
  /\ lq[r].pc = "dtTxn"
  /\ LET t == lq[r].team IN
       /\ users' = UnsetUsersTeam(t)
       /\ leagues' = PullFromLeagues(t)
       /\ teams' = IF teams[t].exists
                   THEN [teams EXCEPT ![t].isActive = FALSE]
                   ELSE teams
       /\ fx' = [fx EXCEPT ![t] = Effects]
  /\ lq' = Put(lq, r, LqDone("200 team deleted"))
  /\ UNCHANGED <<ctl, tq, ops, bookingVars, reviewVars, matchVars>>

\* deleteTeam without a transaction: User.updateMany({ team: id }, { $unset })
DeleteTeamUsers(r) ==
  /\ lq[r].pc = "dtUsers"
  /\ users' = UnsetUsersTeam(lq[r].team)
  /\ fx' = [fx EXCEPT ![lq[r].team] = @ \cup {"users"}]
  /\ lq' = Put(lq, r, [lq[r] EXCEPT !.pc = IF ctl = "hard" THEN "dtLeagues"
                                           ELSE "dtDelete"])
  /\ UNCHANGED <<leagues, ops, teamVars, bookingVars, reviewVars, matchVars>>

\* deleteTeam without a transaction: League.updateMany({ teams: id }, { $pull })
DeleteTeamLeagues(r) ==
  /\ lq[r].pc = "dtLeagues"
  /\ leagues' = PullFromLeagues(lq[r].team)
  /\ fx' = [fx EXCEPT ![lq[r].team] = @ \cup {"leagues"}]
  /\ lq' = Put(lq, r, [lq[r] EXCEPT !.pc = "dtDelete"])
  /\ UNCHANGED <<users, ops, teamVars, bookingVars, reviewVars, matchVars>>

\* deleteTeam without a transaction: Team.findByIdAndDelete(id)
DeleteTeamDelete(r) ==
  /\ lq[r].pc = "dtDelete"
  /\ teams' = [teams EXCEPT ![lq[r].team] = NoTeam]
  /\ fx' = [fx EXCEPT ![lq[r].team] = @ \cup {"team"}]
  /\ lq' = Put(lq, r, LqDone("200 team deleted"))
  /\ UNCHANGED <<ctl, tq, users, leagues, ops, bookingVars, reviewVars, matchVars>>

\* an awaited database call rejects: the handler's catch answers 500 and the
\* writes already made stay; an aborted transaction leaves nothing
DbFailure(r) ==
  /\ lq[r].pc # "done"
  /\ lq' = Put(lq, r, LqDone("500"))
  /\ UNCHANGED <<users, leagues, fx, ops, teamVars, bookingVars, reviewVars, matchVars>>

(***************************************************************************)
(* createReview.  A ground's averageRating is kept as the pair of the sum  *)
(* of the ratings and their number, the quotient the code computes.        *)
(***************************************************************************)
MaxReviews == 3
RatingInputs == {0, 1, 5}

NoRating == <<0, 1>>
NewGround == [reviewCount |-> 0, averageRating |-> NoRating]

\* found: the ratings the request's Review.find returned
GqDone(resp) ==
  [pc |-> "done", user |-> NoId, ground |-> NoId, rating |-> 0, found |-> <<>>,
   resp |-> resp]
GqAt(pc, u, g, rating) ==
  [pc |-> pc, user |-> u, ground |-> g, rating |-> rating, found |-> <<>>,
   resp |-> "none"]

\* Review.find({ ground: id })
ReviewsOf(g) == SelectSeq(reviews, LAMBDA x : x.ground = g)

RECURSIVE SumOf(_)
SumOf(s) == IF s = <<>> THEN 0 ELSE Head(s) + SumOf(Tail(s))

\* reviews.reduce((sum, review) => sum + review.rating, 0) / reviews.length || 0
Average(found) == IF found = <<>> THEN NoRating ELSE <<SumOf(found), Len(found)>>

\* createReview: the check on the rating and Ground.findById
CreateReviewFind(r, u, g, rating) ==
  /\ Free(gq, r)
  /\ Len(reviews) + InFlight(gq) < MaxReviews
  /\ gq' = Put(gq, r,
              IF rating = 0 \/ rating < 1 \/ rating > 5 THEN GqDone("400 rating")
              ELSE IF g \notin Grounds THEN GqDone("404 ground")
              ELSE GqAt("create", u, g, rating))
  /\ UNCHANGED <<reviews, grounds, teamVars, bookingVars, matchVars, memberVars>>

\* createReview: Review.create
CreateReviewCreate(r) ==
  /\ gq[r].pc = "create"
  /\ reviews' = Append(reviews, [user |-> gq[r].user, ground |-> gq[r].ground,
                                 rating |-> gq[r].rating])
  /\ gq' = Put(gq, r, [gq[r] EXCEPT !.pc = "count"])
  /\ UNCHANGED <<grounds, teamVars, bookingVars, matchVars, memberVars>>

\* createReview: Review.find({ ground: id })
CreateReviewCount(r) ==
  /\ gq[r].pc = "count"
  /\ LET found == ReviewsOf(gq[r].ground) IN
       gq' = Put(gq, r, [gq[r] EXCEPT !.pc = "update",
                                      !.found = [i \in 1..Len(found) |-> found[i].rating]])
  /\ UNCHANGED <<reviews, grounds, teamVars, bookingVars, matchVars, memberVars>>

\* createReview: Ground.findByIdAndUpdate(id, { averageRating, reviewCount })
CreateReviewUpdate(r) ==
  /\ gq[r].pc = "update"
  /\ grounds' = [grounds EXCEPT ![gq[r].ground] =
                   [reviewCount |-> Len(gq[r].found),
                    averageRating |-> Average(gq[r].found)]]
  /\ gq' = Put(gq, r, GqDone("201"))
  /\ UNCHANGED <<reviews, teamVars, bookingVars, matchVars, memberVars>>

InitReview ==
  /\ reviews = <<>>
  /\ grounds = [g \in Grounds |-> NewGround]
  /\ gq = [r \in Reqs |-> GqDone("none")]

(***************************************************************************)
(* The reads of teams.                                                     *)
(***************************************************************************)
\* the filter of getTeams' Team.find
ActiveOnly(t) == teams[t].isActive

\* getTeams: Team.find({ isActive: true })
GetTeams(r) ==
  /\ Free(tq, r)
  /\ tq' = Put(tq, r, [TqDone("200 teams") EXCEPT
                         !.body = {t \in Stored : ActiveOnly(t)}])
  /\ UNCHANGED <<ctl, teams, bookingVars, reviewVars, matchVars, memberVars>>

\* getTeamById: Team.findById(id)
GetTeamById(r, t) ==
  /\ Free(tq, r)
  /\ tq' = Put(tq, r, IF ~teams[t].exists THEN TqDone("404 team")
                      ELSE [TqDone("200 team") EXCEPT !.body = {t}])
  /\ UNCHANGED <<ctl, teams, bookingVars, reviewVars, matchVars, memberVars>>

\* the static getTeamStats of the Team model: this.findById(teamId)
TeamGetTeamStats(t) == IF teams[t].exists THEN {t} ELSE {}

\* getTeamStats
GetTeamStats(r, t) ==
  /\ Free(tq, r)
  /\ tq' = Put(tq, r, IF TeamGetTeamStats(t) = {} THEN TqDone("404 team")
                      ELSE [TqDone("200 stats") EXCEPT !.body = TeamGetTeamStats(t)])
  /\ UNCHANGED <<ctl, teams, bookingVars, reviewVars, matchVars, memberVars>>

(***************************************************************************)
(* addPlayerToTeam and removePlayerFromTeam.                               *)
(***************************************************************************)
\* team.players.includes(playerId)
Rostered_Never(t, u) == FALSE
Rostered(t, u) == u \in Range(teams[t].players)

\* addPlayerToTeam: Team.findById
AddPlayerTeamFind(r, t, u) ==
  /\ Free(lq, r)
  /\ lq' = Put(lq, r,
              IF ~teams[t].exists THEN LqDone("404 team")
              ELSE [LqAt("apUser", u, t, NoId, "") EXCEPT !.seen = Rostered(t, u)])
  /\ UNCHANGED <<users, leagues, fx, ops, teamVars, bookingVars, reviewVars, matchVars>>

\* addPlayerToTeam: User.findById, then the check on the roster that was read
\* and the check on the player's team
AddPlayerUserFind(r) ==
  /\ lq[r].pc = "apUser"
  /\ lq' = Put(lq, r,
              IF lq[r].seen THEN LqDone("400 already in this team")
              ELSE IF users[lq[r].user].team # NoId
                      /\ users[lq[r].user].team # lq[r].team
              THEN LqDone("400 in another team")
              ELSE [lq[r] EXCEPT !.pc = "apPush"])
  /\ UNCHANGED <<users, leagues, fx, ops, teamVars, bookingVars, reviewVars, matchVars>>

\* addPlayerToTeam: Team.findByIdAndUpdate(id, { $push: { players } })
AddPlayerPush(r) ==
  /\ lq[r].pc = "apPush"
  /\ LET t == lq[r].team IN
       teams' = IF teams[t].exists
                THEN [teams EXCEPT ![t].players = Append(@, lq[r].user)]
                ELSE teams
  /\ lq' = Put(lq, r, [lq[r] EXCEPT !.pc = "apSet"])
  /\ UNCHANGED <<ctl, tq, users, leagues, fx, ops, bookingVars, reviewVars, matchVars>>

\* addPlayerToTeam: User.findByIdAndUpdate(playerId, { team: id }), then the
\* read of the team for the response
AddPlayerSetTeam(r) ==
  /\ lq[r].pc = "apSet"
  /\ users' = [users EXCEPT ![lq[r].user].team = lq[r].team]
  /\ lq' = Put(lq, r, LqDone("200 player added"))
  /\ UNCHANGED <<leagues, fx, ops, teamVars, bookingVars, reviewVars, matchVars>>

\* removePlayerFromTeam: Team.findById and the check on its roster
RemovePlayerTeamFind(r, t, u) ==
  /\ Free(lq, r)
  /\ lq' = Put(lq, r,
              IF ~teams[t].exists THEN LqDone("404 team")
              ELSE IF ~Rostered(t, u) THEN LqDone("400 not in this team")
              ELSE LqAt("rpPull", u, t, NoId, ""))
  /\ UNCHANGED <<users, leagues, fx, ops, teamVars, bookingVars, reviewVars, matchVars>>

\* removePlayerFromTeam: Team.findByIdAndUpdate(id, { $pull: { players } })
RemovePlayerPull(r) ==
  /\ lq[r].pc = "rpPull"
  /\ LET t == lq[r].team IN
       teams' = IF teams[t].exists
                THEN [teams EXCEPT ![t].players = Pull(@, lq[r].user)]
                ELSE teams
  /\ lq' = Put(lq, r, [lq[r] EXCEPT !.pc = "rpUnset"])
  /\ UNCHANGED <<ctl, tq, users, leagues, fx, ops, bookingVars, reviewVars, matchVars>>

\* removePlayerFromTeam: User.findByIdAndUpdate(playerId, { $unset: { team } }),
\* then the read of the team for the response
RemovePlayerUnset(r) ==
  /\ lq[r].pc = "rpUnset"
  /\ users' = [users EXCEPT ![lq[r].user].team = NoId]
  /\ lq' = Put(lq, r, LqDone("200 player removed"))
  /\ UNCHANGED <<leagues, fx, ops, teamVars, bookingVars, reviewVars, matchVars>>

\* the teams, their captains, the users and the leagues the requests act on
InitMemberDocs ==
  /\ users \in {f \in [Users -> [team : TeamIds]] : f[1].team = 1}
  /\ teams = [t \in TeamIds |->
                [NewTeam(<<"t">> \o [i \in 1..t |-> "x"], NoEmail)
                   EXCEPT !.captain = UserName(((t - 1) % MaxUsers) + 1),
                          !.players = SelectSeq([u \in 1..MaxUsers |-> u],
                                                LAMBDA u : users[u].team = t)]]
  /\ tq = [r \in Reqs |-> TqDone("none")]
  /\ leagues = [l \in LeagueIds |->
                  [state |-> "live", status |-> "upcoming", teams |-> <<>>,
                   startDate |-> 1, endDate |-> 2]]
  /\ lq = [r \in Reqs |-> LqDone("none")]
  /\ fx = [t \in TeamIds |-> {}]
  /\ ops = 0

InitMember == ctl \in {"txn", "hard", "usersOnly"} /\ InitMemberDocs

\* the variants of deleteTeam, the one without an existence check included
InitMemberAll == ctl \in {"txn", "hard", "usersOnly", "noCheck"} /\ InitMemberDocs

InitTeam ==
  /\ ctl \in {"regex", "normalize", "exact"}
  /\ teams = [t \in TeamIds |-> NoTeam]
  /\ tq = [r \in Reqs |-> TqDone("none")]

ParkTeam ==
  /\ ctl = "regex"
  /\ teams = [t \in TeamIds |-> NoTeam]
  /\ tq = [r \in Reqs |-> TqDone("none")]

ParkBooking == bookings = <<>> /\ bq = <<>>
ParkMatch == matches = <<>> /\ mq = <<>> /\ now = 0
ParkMember == users = <<>> /\ leagues = <<>> /\ lq = <<>> /\ fx = <<>> /\ ops = 0
ParkReview == reviews = <<>> /\ grounds = <<>> /\ gq = <<>>

(***************************************************************************)
(* The middleware of the admin-only routes: authenticateToken, isAdmin.    *)
(* A token is what the Authorization header carries: no header, a header   *)
(* that is not a bearer token, a token jwt.verify refuses, or a verified   *)
(* payload.  A payload's role is the user's, or absent.                    *)
(***************************************************************************)
\* the id of a user whose document is gone
Stranger == MaxUsers + 1

NoPayload == [userId |-> NoId, email |-> FALSE, role |-> ""]
TokenInputs ==
  { [kind |-> k, payload |-> NoPayload] :
      k \in {"no header", "not bearer", "empty", "malformed", "invalid", "expired"} }
  \cup
  UNION { { [kind |-> "verified",
             payload |-> [userId |-> u, email |-> e, role |-> ro]] :
              e \in BOOLEAN, ro \in {"", IF u \in Users THEN Role(u) ELSE "user"} } :
          u \in Users \cup {NoId, Stranger} }

\* what the payload check of authenticateToken refuses
PayloadRefused(payload) == payload.userId = NoId \/ ~payload.email

\* authenticateToken: the answer it gives, or "next" and req.user
authenticateToken(token) ==
  IF token.kind # "verified" THEN [status |-> "401", user |-> NoPayload]
  ELSE IF PayloadRefused(token.payload) THEN [status |-> "401", user |-> NoPayload]
  ELSE IF token.payload.userId \notin Users THEN [status |-> "401", user |-> NoPayload]
  ELSE [status |-> "next",
        user |-> [userId |-> token.payload.userId, email |-> TRUE,
                  role |-> IF token.payload.role # "" THEN token.payload.role
                           ELSE Role(token.payload.userId)]]

\* isAdmin's role check
RoleRefused_Never(role) == FALSE
RoleRefused(role) == role # "admin"

\* isAdmin, after authenticateToken
isAdmin(auth) ==
  IF auth.status # "next" THEN auth.status
  ELSE IF RoleRefused(auth.user.role) THEN "403"
  ELSE "next"

\* authenticateToken, isAdmin
AdminGate(token) == isAdmin(authenticateToken(token))

\* a server that takes the next request when it has answered the last one
OneAtATime == Quiet(tq) /\ Quiet(lq) /\ Quiet(mq)

\* a request the middleware answers: the controller is not called
TeamRouteRefused(r, token) ==
  /\ AdminGate(token) # "next" /\ Free(tq, r)
  /\ tq' = Put(tq, r, TqDone(AdminGate(token)))
  /\ UNCHANGED <<ctl, teams, bookingVars, reviewVars, matchVars, memberVars>>

PlayerRouteRefused(r, token) ==
  /\ AdminGate(token) # "next" /\ Free(lq, r)
  /\ lq' = Put(lq, r, LqDone(AdminGate(token)))
  /\ UNCHANGED <<users, leagues, fx, ops, teamVars, bookingVars, reviewVars, matchVars>>

MatchRouteRefused(r, token) ==
  /\ authenticateToken(token).status # "next" /\ Free(mq, r)
  /\ mq' = Put(mq, r, MqDone(authenticateToken(token).status))
  /\ UNCHANGED <<matches, now, teamVars, bookingVars, reviewVars, memberVars>>

\* router.post('/', authenticateToken, isAdmin, createTeam)
CreateTeamRoute(r, token, body) ==
  /\ OneAtATime
  /\ \/ TeamRouteRefused(r, token)
     \/ AdminGate(token) = "next" /\ CreateTeamRegexFind(r, body)

\* router.put('/:id', authenticateToken, isAdmin, updateTeam)
UpdateTeamRoute(r, token, id, body) ==
  /\ OneAtATime
  /\ \/ TeamRouteRefused(r, token)
     \/ AdminGate(token) = "next" /\ UpdateTeamRegexFind(r, id, body)

\* router.delete('/:id', authenticateToken, isAdmin, deleteTeam)
DeleteTeamRoute(r, token, t) ==
  /\ OneAtATime
  /\ \/ PlayerRouteRefused(r, token)
     \/ AdminGate(token) = "next" /\ DeleteTeamFind(r, t)

\* router.post('/:id/players', authenticateToken, isAdmin, addPlayerToTeam)
AddPlayerRoute(r, token, t, u) ==
  /\ OneAtATime
  /\ \/ PlayerRouteRefused(r, token)
     \/ AdminGate(token) = "next" /\ AddPlayerTeamFind(r, t, u)

\* router.delete('/:id/players/:playerId', authenticateToken, isAdmin,
\* removePlayerFromTeam)
RemovePlayerRoute(r, token, t, u) ==
  /\ OneAtATime
  /\ \/ PlayerRouteRefused(r, token)
     \/ AdminGate(token) = "next" /\ RemovePlayerTeamFind(r, t, u)

\* createMatch behind authenticateToken: req.user is what the middleware set
CreateMatchRoute(r, token, maxPlayers, when) ==
  /\ OneAtATime
  /\ \/ MatchRouteRefused(r, token)
     \/ /\ authenticateToken(token).status = "next"
        /\ CreateMatch(r, authenticateToken(token).user.userId, maxPlayers, when)

\* one team with user 2 on its roster, one free team id, no match
InitGate ==
  /\ ctl = "regex"
  /\ users = [u \in Users |-> [team |-> IF u = 2 THEN 1 ELSE NoId]]
  /\ teams = [t \in TeamIds |->
                IF t = 1
                THEN [NewTeam(<<"a", "b">>, NoEmail)
                        EXCEPT !.password = bcryptHash(Plain(GoodPassword)),
                               !.players = <<2>>]
                ELSE NoTeam]
  /\ tq = [r \in Reqs |-> TqDone("none")]
  /\ leagues = [l \in LeagueIds |-> NoLeague]
  /\ lq = [r \in Reqs |-> LqDone("none")]
  /\ fx = [t \in TeamIds |-> {}]
  /\ ops = 0
  /\ ParkBooking /\ ParkReview
  /\ InitMatch

GateBodies == [name : {<<"c", "d">>}, email : {NoEmail}, password : {GoodPassword}]

\* the admin-only routes, one request of a kind at a time
\* the tokens of the requests: one that is refused unverified, and the payloads
GateTokens == {token \in TokenInputs : token.kind \in {"expired", "verified"}}

NextGate ==
  \/ \E token \in GateTokens, body \in GateBodies : CreateTeamRoute(1, token, body)
  \/ CreateTeamInsert(1)
  \/ \E token \in GateTokens, body \in GateBodies : UpdateTeamRoute(1, token, 1, body)
  \/ UpdateTeamNameFind(1)
  \/ UpdateTeamWrite(1)
  \/ \E token \in GateTokens : DeleteTeamRoute(1, token, 1)
  \/ DeleteTeamTxn(1)
  \/ \E token \in GateTokens : AddPlayerRoute(1, token, 1, 2)
  \/ AddPlayerUserFind(1)
  \/ AddPlayerPush(1)
  \/ AddPlayerSetTeam(1)
  \/ \E token \in GateTokens : RemovePlayerRoute(1, token, 1, 2)
  \/ RemovePlayerPull(1)
  \/ RemovePlayerUnset(1)
  \/ \E token \in GateTokens : CreateMatchRoute(1, token, 0, MaxNow)

SpecGate == InitGate /\ [][NextGate]_vars

(***************************************************************************)
(* createTeam requests one at a time, and interleaved.                     *)
(***************************************************************************)
InitCreate == InitTeam /\ ParkBooking /\ ParkReview /\ ParkMatch /\ ParkMember

CreateTeamSerial(r) ==
  /\ Quiet(tq)
  /\ \E body \in Bodies :
       \/ CreateTeamRegexFind(r, body)
       \/ CreateTeamNormalizeFind(r, body)
       \/ CreateTeamExactFind(r, body)

CreateTeamWithPassword(r) ==
  /\ Quiet(tq)
  /\ \E body \in PasswordBodies :
       \/ CreateTeamRegexFind(r, body)
       \/ CreateTeamNormalizeFind(r, body)
       \/ CreateTeamExactFind(r, body)

NextPassword ==
  \E r \in Reqs :
    \/ CreateTeamWithPassword(r)
    \/ CreateTeamInsert(r)

SpecPassword == InitCreate /\ [][NextPassword]_vars

\* one team stored, a second stored or not: names, emails and passwords as
\* createTeam leaves them
InitUpdateDocs ==
  /\ ctl \in {"regex", "normalize", "document", "clean", "router"}
  /\ \E second \in BOOLEAN :
       teams = [t \in TeamIds |->
                  IF t = 1
                  THEN [NewTeam(<<"a", "b">>, <<"a", "@", "b", ".", "b">>)
                          EXCEPT !.password = bcryptHash(Plain(GoodPassword))]
                  ELSE IF t = 2 /\ second
                  THEN [NewTeam(<<"c", "d">>, NoEmail)
                          EXCEPT !.password = bcryptHash(Plain(GoodPassword))]
                  ELSE NoTeam]
  /\ tq = [r \in Reqs |-> TqDone("none")]

InitUpdate == InitUpdateDocs /\ ParkBooking /\ ParkReview /\ ParkMatch /\ ParkMember

CreateBodies == [name : UpdateNames, email : UpdateEmails, password : {GoodPassword}]

\* createTeam and updateTeam requests, one at a time
NextUpdateSerial ==
  \/ \E body \in CreateBodies : CreateTeamRegexFind(1, body)
  \/ \E body \in CreateBodies : CreateTeamNormalizeFind(1, body)
  \/ CreateTeamEmailFind(1)
  \/ CreateTeamInsert(1)
  \/ \E id \in TeamIds, body \in UpdateBodies : UpdateTeamRegexFind(1, id, body)
  \/ \E id \in TeamIds, body \in UpdateBodies : UpdateTeamNormalizeFind(1, id, body)
  \/ \E id \in TeamIds, body \in UpdateBodies : UpdateTeamCleanFind(1, id, body)
  \/ \E id \in TeamIds, body \in UpdateBodies : UpdateTeamRouter(1, id, body)
  \/ UpdateTeamNameFind(1)
  \/ UpdateTeamEmailFind(1)
  \/ UpdateTeamWrite(1)

SpecUpdateSerial == InitUpdate /\ [][NextUpdateSerial]_vars

NextCreateSerial ==
  \E r \in Reqs :
    \/ CreateTeamSerial(r)
    \/ CreateTeamEmailFind(r)
    \/ CreateTeamInsert(r)

NextCreate ==
  \E r \in Reqs :
    \/ \E body \in Bodies : CreateTeamRegexFind(r, body)
    \/ \E body \in Bodies : CreateTeamNormalizeFind(r, body)
    \/ \E body \in Bodies : CreateTeamExactFind(r, body)
    \/ CreateTeamEmailFind(r)
    \/ CreateTeamInsert(r)

SpecCreateSerial == InitCreate /\ [][NextCreateSerial]_vars
SpecCreate == InitCreate /\ [][NextCreate]_vars

(***************************************************************************)
(* Booking requests, interleaved.                                          *)
(***************************************************************************)
NextBooking ==
  \E r \in Reqs :
    \/ \E g \in GroundInputs, d \in DateInputs, t \in TimeInputs :
         CreateBookingFind(r, g, d, t)
    \/ CreateBookingCreate(r)
    \/ \E i \in 1..MaxBookings : DeleteBooking(r, i)

InitBookingOnly == ParkTeam /\ InitBooking /\ ParkReview /\ ParkMatch /\ ParkMember
SpecBooking == InitBookingOnly /\ [][NextBooking]_vars

(***************************************************************************)
(* Match requests, one at a time and interleaved.                          *)
(***************************************************************************)
StatusInputs == {"", "upcoming", "completed"}

\* one request at a time: slot 1 is taken only when it is idle
NextMatchSerial ==
  \/ \E u \in Users, c \in 0..MaxCap, w \in 1..MaxNow : CreateMatch(1, u, c, w)
  \/ \E u \in Users, m \in MatchIds, ok \in BOOLEAN : JoinMatchFind(1, u, m, ok)
  \/ \E u \in Users, m \in MatchIds, st \in StatusInputs, mt \in BOOLEAN,
        c \in 0..MaxCap : UpdateMatchFind(1, u, m, st, mt, c)
  \/ JoinMatchPush(1)
  \/ UpdateMatchWrite(1)
  \/ Tick

NextMatch ==
  \/ \E r \in Reqs, u \in Users, c \in 0..MaxCap, w \in 1..MaxNow : CreateMatch(r, u, c, w)
  \/ \E r \in Reqs, u \in Users, m \in MatchIds, ok \in BOOLEAN : JoinMatchFind(r, u, m, ok)
  \/ \E r \in Reqs, u \in Users, m \in MatchIds, st \in StatusInputs, mt \in BOOLEAN,
        c \in 0..MaxCap : UpdateMatchFind(r, u, m, st, mt, c)
  \/ \E r \in Reqs : JoinMatchPush(r)
  \/ \E r \in Reqs : UpdateMatchWrite(r)
  \/ Tick

InitMatchOnly == ParkTeam /\ ParkBooking /\ ParkReview /\ InitMatch /\ ParkMember

\* createMatch, updateMatch and deleteMatch, one request at a time
NextMatchOwner ==
  \/ \E u \in Users, c \in 0..MaxCap, w \in 1..MaxNow : CreateMatch(1, u, c, w)
  \/ \E u \in Users, m \in MatchIds, st \in StatusInputs, mt \in BOOLEAN,
        c \in 0..MaxCap : UpdateMatchFind(1, u, m, st, mt, c)
  \/ UpdateMatchWrite(1)
  \/ \E u \in Users, m \in MatchIds : DeleteMatchFind(1, u, m)
  \/ DeleteMatchDelete(1)
  \/ Tick

SpecMatchOwner == InitMatchOnly /\ [][NextMatchOwner]_vars

\* createMatch with either shape of time, joinMatch, updateMatch and the clock,
\* one request at a time
NextMatchTime ==
  \/ \E u \in Users, w \in 1..MaxNow, ts \in TimeShapes : CreateMatchAt(1, u, MaxCap, w, ts)
  \/ \E u \in Users, m \in MatchIds, ok \in BOOLEAN : JoinMatchFind(1, u, m, ok)
  \/ JoinMatchPush(1)
  \/ \E u \in Users, m \in MatchIds, st \in StatusInputs :
       UpdateMatchFind(1, u, m, st, FALSE, 0)
  \/ UpdateMatchWrite(1)
  \/ Tick

SpecMatchTime == InitMatchOnly /\ [][NextMatchTime]_vars
SpecMatchSerial == InitMatchOnly /\ [][NextMatchSerial]_vars
SpecMatch == InitMatchOnly /\ [][NextMatch]_vars

(***************************************************************************)
(* Membership requests one at a time, and interleaved.                     *)
(***************************************************************************)
LeagueStatusInputs == {"", "upcoming", "active", "completed"}

\* one request at a time: slot 1 is taken only when it is idle
NextMemberSerial ==
  \/ \E u \in Users, l \in LeagueIds : JoinLeagueUserFind(1, u, l)
  \/ \E l \in LeagueIds, st \in LeagueStatusInputs, sd \in {NoDate, MaxDay} :
       UpdateLeagueFind(1, l, st, sd, NoDate)
  \/ \E l \in LeagueIds : DeleteLeagueFind(1, l)
  \/ \E t \in TeamIds : DeleteTeamFind(1, t)
  \/ JoinLeagueTeamFind(1)
  \/ JoinLeagueLeagueFind(1)
  \/ JoinLeaguePush(1)
  \/ JoinLeagueSetCurrent(1)
  \/ UpdateLeagueWrite(1)
  \/ DeleteLeagueUnset(1)
  \/ DeleteLeagueDelete(1)
  \/ DeleteTeamTxn(1)
  \/ DeleteTeamUsers(1)
  \/ DeleteTeamLeagues(1)
  \/ DeleteTeamDelete(1)

NextMember ==
  \/ \E r \in Reqs, u \in Users, l \in LeagueIds : JoinLeagueUserFind(r, u, l)
  \/ \E r \in Reqs, l \in LeagueIds, st \in LeagueStatusInputs,
        sd \in {NoDate, MaxDay} : UpdateLeagueFind(r, l, st, sd, NoDate)
  \/ \E r \in Reqs, l \in LeagueIds : DeleteLeagueFind(r, l)
  \/ \E r \in Reqs, t \in TeamIds : DeleteTeamFind(r, t)
  \/ \E r \in Reqs : JoinLeagueTeamFind(r)
  \/ \E r \in Reqs : JoinLeagueLeagueFind(r)
  \/ \E r \in Reqs : JoinLeaguePush(r)
  \/ \E r \in Reqs : JoinLeagueSetCurrent(r)
  \/ \E r \in Reqs : UpdateLeagueWrite(r)
  \/ \E r \in Reqs : DeleteLeagueUnset(r)
  \/ \E r \in Reqs : DeleteLeagueDelete(r)
  \/ \E r \in Reqs : DeleteTeamTxn(r)
  \/ \E r \in Reqs : DeleteTeamUsers(r)
  \/ \E r \in Reqs : DeleteTeamLeagues(r)
  \/ \E r \in Reqs : DeleteTeamDelete(r)
  \/ \E r \in Reqs : DbFailure(r)

InitMemberOnly == InitMember /\ ParkBooking /\ ParkReview /\ ParkMatch
InitMemberSerial == InitMemberAll /\ ParkBooking /\ ParkReview /\ ParkMatch
SpecMemberSerial == InitMemberSerial /\ [][NextMemberSerial]_vars
SpecMember == InitMemberOnly /\ [][NextMember]_vars

(***************************************************************************)
(* addPlayerToTeam and removePlayerFromTeam requests one at a time.        *)
(***************************************************************************)
NextRosterSerial ==
  \/ \E t \in TeamIds, u \in Users : AddPlayerTeamFind(1, t, u)
  \/ \E t \in TeamIds, u \in Users : RemovePlayerTeamFind(1, t, u)
  \/ AddPlayerUserFind(1)
  \/ AddPlayerPush(1)
  \/ AddPlayerSetTeam(1)
  \/ RemovePlayerPull(1)
  \/ RemovePlayerUnset(1)

InitRoster == ctl = "txn" /\ InitMemberDocs /\ ParkBooking /\ ParkReview /\ ParkMatch
SpecRosterSerial == InitRoster /\ [][NextRosterSerial]_vars

\* addPlayerToTeam and removePlayerFromTeam requests running side by side
NextRoster ==
  \/ \E r \in Reqs, t \in TeamIds, u \in Users : AddPlayerTeamFind(r, t, u)
  \/ \E r \in Reqs, t \in TeamIds, u \in Users : RemovePlayerTeamFind(r, t, u)
  \/ \E r \in Reqs : AddPlayerUserFind(r)
  \/ \E r \in Reqs : AddPlayerPush(r)
  \/ \E r \in Reqs : AddPlayerSetTeam(r)
  \/ \E r \in Reqs : RemovePlayerPull(r)
  \/ \E r \in Reqs : RemovePlayerUnset(r)

SpecRoster == InitRoster /\ [][NextRoster]_vars

\* deleteTeam and addPlayerToTeam requests running side by side
NextRosterDelete ==
  \/ \E r \in Reqs, t \in TeamIds, u \in Users : AddPlayerTeamFind(r, t, u)
  \/ \E r \in Reqs : AddPlayerUserFind(r)
  \/ \E r \in Reqs : AddPlayerPush(r)
  \/ \E r \in Reqs : AddPlayerSetTeam(r)
  \/ \E r \in Reqs, t \in TeamIds : DeleteTeamFind(r, t)
  \/ \E r \in Reqs : DeleteTeamTxn(r)

SpecRosterDelete == InitRoster /\ [][NextRosterDelete]_vars

\* deleteTeam requests and the reads of teams, one request at a time
NextRead ==
  \/ \E t \in TeamIds : DeleteTeamFind(1, t)
  \/ DeleteTeamTxn(1)
  \/ GetTeams(1)
  \/ \E t \in TeamIds : GetTeamById(1, t)
  \/ \E t \in TeamIds : GetTeamStats(1, t)

SpecRead == InitRoster /\ [][NextRead]_vars

\* one team with a name and an email, and room for one more
InitRecreate ==
  /\ ctl = "regex"
  /\ users = [u \in Users |-> [team |-> IF u = 1 THEN 1 ELSE NoId]]
  /\ teams = [t \in TeamIds |->
                IF t = 1
                THEN [NewTeam(<<"a", "b">>, <<"a", "@", "b", ".", "b">>)
                        EXCEPT !.password = bcryptHash(Plain(GoodPassword)),
                               !.players = <<1>>]
                ELSE NoTeam]
  /\ tq = [r \in Reqs |-> TqDone("none")]
  /\ leagues = [l \in LeagueIds |-> NoLeague]
  /\ lq = [r \in Reqs |-> LqDone("none")]
  /\ fx = [t \in TeamIds |-> {}]
  /\ ops = 0
  /\ ParkBooking /\ ParkReview
  /\ ParkMatch

\* deleteTeam and createTeam requests of the first controller, one at a time
NextRecreate ==
  \/ \E t \in TeamIds : DeleteTeamFind(1, t)
  \/ DeleteTeamTxn(1)
  \/ \E body \in CreateBodies : CreateTeamRegexFind(1, body)
  \/ CreateTeamEmailFind(1)
  \/ CreateTeamInsert(1)

SpecRecreate == InitRecreate /\ [][NextRecreate]_vars

\* createReview requests running side by side
NextReview ==
  \/ \E r \in Reqs, u \in Users, g \in GroundInputs, rating \in RatingInputs :
       CreateReviewFind(r, u, g, rating)
  \/ \E r \in Reqs : CreateReviewCreate(r)
  \/ \E r \in Reqs : CreateReviewCount(r)
  \/ \E r \in Reqs : CreateReviewUpdate(r)

InitReviewOnly == ParkTeam /\ ParkBooking /\ InitReview /\ ParkMatch /\ ParkMember
SpecReview == InitReviewOnly /\ [][NextReview]_vars

(***************************************************************************)
(* createLeague and updateLeague requests one at a time.                   *)
(***************************************************************************)
\* one league id is free; the other ids are those of deleted leagues
InitLeague ==
  /\ ctl = "txn"
  /\ teams = [t \in TeamIds |-> NoTeam]
  /\ tq = [r \in Reqs |-> TqDone("none")]
  /\ users = [u \in Users |-> [team |-> NoId]]
  /\ leagues = [l \in LeagueIds |-> IF l = 1 THEN FreeLeague ELSE NoLeague]
  /\ lq = [r \in Reqs |-> LqDone("none")]
  /\ fx = [t \in TeamIds |-> {}]
  /\ ops = 0
  /\ ParkBooking /\ ParkReview
  /\ ParkMatch

\* one request at a time: slot 1 is taken only when it is idle
NextLeagueSerial ==
  \/ \E n \in BOOLEAN, sd \in LeagueDateInputs, ed \in LeagueDateInputs :
       CreateLeague(1, n, sd, ed)
  \/ \E l \in LeagueIds, st \in LeagueStatusInputs,
        sd \in LeagueDateInputs, ed \in LeagueDateInputs :
       UpdateLeagueFind(1, l, st, sd, ed)
  \/ UpdateLeagueWrite(1)
  \/ Tick

SpecLeagueSerial == InitLeague /\ [][NextLeagueSerial]_vars

\* the name the duplicate rule compares: trimmed, whitespace collapsed, case folded
NormalizedName(name) == ToLowerCase(CollapseSpaces(Trim(name)))

\* C1: after createTeam requests run one at a time, no two stored teams have the
\* same normalized name (a createTeam whose normalized name is taken is rejected
\* and stores nothing).  Checked under SpecCreateSerial.
C1_NoTwoTeamsSameNormalizedName ==
  \A t, u \in Stored :
    t # u => NormalizedName(teams[t].name) # NormalizedName(teams[u].name)

\* the read-side duplicate check of the deployed controller, asked again of the
\* name a request is about to insert
ReadCheckRejects(name) ==
  \E t \in Stored :
    CASE ctl = "regex" -> RegexValid(name) /\ RegexTest(name, teams[t].name)
      [] ctl = "normalize" -> /\ normalizeTeamName(name) # <<>>
                              /\ normalizeTeamName(teams[t].name) = normalizeTeamName(name)
      [] OTHER -> teams[t].name = name

\* C2: a createTeam that passed the read-side duplicate check while an
\* equivalent team was being stored by a concurrent request is stopped by the
\* unique index on name: its insert stores no team.
C2_UniqueIndexStopsRace ==
  [][\A r \in Reqs :
       (tq[r].pc = "insert" /\ ReadCheckRejects(tq[r].name) /\ tq'[r].pc = "done")
         => teams' = teams]_vars

\* C3: in every reachable state, whatever the interleaving of createBooking
\* requests, no two bookings that are not cancelled share ground, calendar day
\* and time slot.
C3_NoDoubleBooking ==
  \A i, j \in 1..Len(bookings) :
    (/\ i # j
     /\ bookings[i].status # "cancelled" /\ bookings[j].status # "cancelled"
     /\ bookings[i].ground = bookings[j].ground
     /\ bookings[i].time = bookings[j].time)
      => bookings[i].date \div DayMs # bookings[j].date \div DayMs

\* C4: in every reachable state of a match, under any interleaving of
\* joinMatch and updateMatch, the number of joinedPlayers is at most maxPlayers.
C4_JoinedWithinCapacity ==
  \A m \in MatchIds :
    Live(m) => Len(matches[m].joinedPlayers) <= matches[m].maxPlayers

\* C5: a user appears at most once in a match's joinedPlayers, also when the
\* same user sends two joinMatch requests for the match at the same time.
C5_UserJoinsOnce ==
  \A m \in MatchIds :
    \A i, j \in 1..Len(matches[m].joinedPlayers) :
      i # j => matches[m].joinedPlayers[i] # matches[m].joinedPlayers[j]

AtCapacity(m) == Live(m) /\ Len(matches[m].joinedPlayers) = matches[m].maxPlayers

\* C6 as stated: every joinMatch on a match whose joinedPlayers count equals
\* maxPlayers is answered 400 "Match is already full" and leaves joinedPlayers
\* unchanged, whoever the user is.
C6_FullMatchAnsweredFull ==
  [][\A r \in Reqs, u \in Users, m \in MatchIds, ok \in BOOLEAN :
       (AtCapacity(m) /\ JoinMatchFind(r, u, m, ok))
         => /\ mq'[r].resp = "400 match is already full"
            /\ matches' = matches]_vars

\* C6, amended: a joinMatch that carries playerName and contactInfo, on a match
\* whose joinedPlayers count equals maxPlayers, is answered 400 "Match is already
\* full" and leaves joinedPlayers unchanged, whoever the user is.
C6_FullMatchRejected ==
  [][\A r \in Reqs, u \in Users, m \in MatchIds :
       (AtCapacity(m) /\ JoinMatchFind(r, u, m, TRUE))
         => /\ mq'[r].resp = "400 match is already full"
            /\ matches' = matches]_vars

\* a joinMatch has been answered "Match is already full" by a match at capacity
C6_Witness ==
  \E r \in Reqs, m \in MatchIds :
    /\ mq[r].resp = "400 match is already full"
    /\ AtCapacity(m)
    /\ matches[m].joinedPlayers # <<>>

(***************************************************************************)
(* League membership and the deletion of a team.                           *)
(***************************************************************************)
InRoster(t, l) == LiveLeague(l) /\ t \in Range(leagues[l].teams)
OpenLeaguesOf(t) == {l \in LeagueIds : InRoster(t, l) /\ leagues[l].status # "completed"}

\* C7: in every reachable state, whatever the interleaving of joinLeague,
\* updateLeague, deleteLeague and deleteTeam, a team is in the roster of at most
\* one league whose status is not completed.
C7_OneOpenLeaguePerTeam ==
  \A t \in TeamIds : Cardinality(OpenLeaguesOf(t)) <= 1

\* the team of a joinLeague request is in the league it asks for, or in another
\* league that is not completed
PriorMembership(t, l) ==
  \/ InRoster(t, l)
  \/ \E k \in LeagueIds \ {l} : k \in OpenLeaguesOf(t)

PriorMembershipResp == {"400 another league", "400 already in this league"}
JoinLeagueChecks == {"jlTeam", "jlLeague"}

\* C8: joinLeague answers with a prior-membership rejection only if the team is
\* in this league or in a different league that is not completed, it lets no
\* such team through its checks, and a join answered with a rejection changes no
\* roster and no team's currentLeague.
C8_RejectsForPriorMembershipExactly ==
  [][\A r \in Reqs :
       lq[r].pc \in JoinLeagueChecks =>
         /\ lq'[r].resp \in PriorMembershipResp
              => PriorMembership(lq[r].team, lq[r].league)
         /\ lq'[r].pc = "jlPush" => ~PriorMembership(lq[r].team, lq[r].league)
         /\ lq'[r].pc = "done" /\ lq'[r].resp # "500"
              => /\ leagues' = leagues
                 /\ \A t \in TeamIds : teams'[t].currentLeague = teams[t].currentLeague]_vars

\* C9: in the step in which deleteTeam(id) answers success, no user's team is id
\* and no league's roster contains id.
C9_DeletedTeamLeavesNoReference ==
  [][\A r \in Reqs :
       lq[r].pc \in {"dtTxn", "dtDelete"} /\ lq'[r].resp = "200 team deleted"
         => /\ \A u \in Users : users'[u].team # lq[r].team
            /\ \A l \in LeagueIds : lq[r].team \notin Range(leagues'[l].teams)]_vars

\* C10: deleteTeam's three effects (user references stripped, rosters pulled,
\* team deleted or deactivated) are applied all together or not at all: no
\* reachable state has only some of them applied to a team.
C10_CascadeAllOrNothing ==
  \A t \in TeamIds : fx[t] = {} \/ fx[t] = Effects

\* C11: deleteTeam(id) for an id with no existing team, a team that an earlier
\* deleteTeam deleted included, answers 404 at once and changes no user, league
\* or team record.
C11_DeleteAbsentTeamNotFound ==
  [][\A r \in Reqs, t \in TeamIds :
       DeleteTeamFind(r, t) /\ (~teams[t].exists \/ ~teams[t].isActive)
         => /\ lq'[r].resp = "404 team"
            /\ users' = users /\ leagues' = leagues /\ teams' = teams]_vars

(***************************************************************************)
(* Team rosters.                                                           *)
(***************************************************************************)
\* a user's team is T exactly when the user is in T's players
RosterMatchesReference ==
  \A u \in Users, t \in TeamIds :
    users[u].team = t <=> u \in Range(teams[t].players)

\* C12: after any sequence of addPlayerToTeam and removePlayerFromTeam requests
\* a user's team reference is T exactly when the user is in T's roster; adding
\* a rostered player and removing an unrostered one are answered 400 and change
\* nothing.
C12_RosterAndReferenceAgree ==
  /\ [](Quiet(lq) => RosterMatchesReference)
  /\ [][\A r \in Reqs :
          /\ lq[r].pc = "apUser" /\ lq[r].user \in Range(teams[lq[r].team].players)
               => /\ lq'[r].resp = "400 already in this team"
                  /\ teams' = teams /\ users' = users
          /\ \A t \in TeamIds, u \in Users :
               RemovePlayerTeamFind(r, t, u) /\ teams[t].exists /\ ~(u \in Range(teams[t].players))
                 => /\ lq'[r].resp = "400 not in this team"
                    /\ teams' = teams /\ users' = users]_vars

\* a rostered player has been added again and refused
C12_Witness ==
  \E r \in Reqs : lq[r].resp = "400 already in this team"

(***************************************************************************)
(* League dates.                                                           *)
(***************************************************************************)
\* C13: every stored league has startDate strictly before endDate; no update
\* whose dates, merged with the league's, give endDate <= startDate gets past
\* the date check, and a create or update answered 400 for the order of its
\* dates leaves the leagues as they were.
C13_LeagueStartsBeforeItEnds ==
  /\ [](\A l \in LeagueIds : LiveLeague(l) => leagues[l].startDate < leagues[l].endDate)
  /\ [](\A r \in Reqs : lq[r].pc = "ulWrite" => lq[r].dates[1] < lq[r].dates[2])
  /\ [][\A r \in Reqs :
          lq'[r].resp \in {"400 dates", "400 end before start"}
            => leagues' = leagues]_vars

\* an update of a stored league has been refused for the order of its dates
C13_Witness ==
  /\ \E r \in Reqs : lq[r].resp = "400 dates"
  /\ \E l \in LeagueIds : LiveLeague(l)

(***************************************************************************)
(* Deleted leagues.                                                        *)
(***************************************************************************)
\* C14: once deleteLeague(id) has completed and no request is in flight, no
\* team's currentLeague is id, whatever joinLeague requests ran beside it.
C14_NoTeamPointsAtDeletedLeague ==
  Quiet(lq) =>
    \A l \in LeagueIds : leagues[l].state = "gone" =>
      \A t \in TeamIds : teams[t].exists => teams[t].currentLeague # l

(***************************************************************************)
(* Team passwords.                                                         *)
(***************************************************************************)
\* C15: createTeam stores the password hashed exactly once: the stored value is
\* not the submitted plaintext, and comparePassword on the created team with
\* the submitted password is true.
C15_PasswordHashedOnce ==
  [][\A r \in Reqs :
       tq[r].pc = "insert" /\ tq'[r].resp = "201" =>
         LET team == teams'[FreshId] IN
           /\ team.password.hashes = 1
           /\ team.password # Plain(tq[r].submitted)
           /\ comparePassword(team, tq[r].submitted)]_vars

\* C16: updateTeam never changes the stored password, whatever the request
\* body contains: a step that is not createTeam's insert leaves every stored
\* team's password as it was.
C16_UpdateKeepsPassword ==
  [][(\A r \in Reqs : tq[r].pc # "insert") =>
       \A t \in TeamIds : teams[t].exists => teams'[t].password = teams[t].password]_vars

\* C17: no successful createTeam or updateTeam response contains the team's
\* password.
C17_ResponseHidesPassword ==
  \A r \in Reqs : tq[r].resp \in {"200", "201"} => ~tq[r].shown

(***************************************************************************)
(* Names and emails under updateTeam.                                      *)
(***************************************************************************)
NameRejections == {"400 name exists", "400 duplicate key", "500 duplicate key"}

NoTwoTeamsShareNormalizedName ==
  \A t, u \in Stored :
    t # u => normalizeTeamName(teams[t].name) # normalizeTeamName(teams[u].name)

\* C18: updateTeam's duplicate-name rule excludes the team's own id: a rename
\* to the team's own name is not rejected for its name, a rename never lands on
\* the normalized name of another team, and no step of createTeam or updateTeam
\* makes two teams share a normalized name.
C18_RenameKeepsNamesDistinct ==
  /\ [][\A id \in TeamIds, body \in UpdateBodies :
          /\ teams[id].exists /\ body.name = teams[id].name
          /\ \/ UpdateTeamRegexFind(1, id, body)
             \/ UpdateTeamNormalizeFind(1, id, body)
             \/ UpdateTeamCleanFind(1, id, body)
             \/ UpdateTeamRouter(1, id, body)
          => tq'[1].resp \notin NameRejections]_vars
  /\ [][\A r \in Reqs :
          /\ tq[r].pc \in {"uName", "uEmail", "uWrite"}
          /\ teams[tq[r].id].exists /\ tq[r].name = teams[tq[r].id].name
          => tq'[r].resp \notin NameRejections]_vars
  /\ [][\A id \in TeamIds :
          teams[id].exists /\ teams'[id].name # teams[id].name =>
            \A t \in Others(id) :
              normalizeTeamName(teams'[id].name) # normalizeTeamName(teams[t].name)]_vars
  /\ [][NoTwoTeamsShareNormalizedName => NoTwoTeamsShareNormalizedName']_vars

\* C19: no two teams have the same non-empty email, and a request without an
\* email is never looked up against, or rejected for, the emails of the other
\* teams.
C19_EmailsDistinct ==
  /\ [](\A t, u \in Stored :
          t # u /\ teams[t].email # NoEmail => teams[t].email # teams[u].email)
  /\ [](\A r \in Reqs : tq[r].pc \in {"email", "uEmail"} => tq[r].email # NoEmail)
  /\ [][\A r \in Reqs :
          tq'[r].resp = "400 email exists" => tq[r].pc \in {"email", "uEmail"}]_vars

Authenticated(token) ==
  /\ token.kind = "verified"
  /\ token.payload.userId \in Users
  /\ token.payload.email
AdminCaller(token) == Authenticated(token) /\ Role(token.payload.userId) = "admin"

\* the documents of the store
Store == <<teams, users, leagues, matches, bookings>>

Incomplete(token) ==
  /\ token.kind = "verified"
  /\ \/ token.payload.userId = NoId
     \/ ~token.payload.email
     \/ token.payload.role = ""

\* C23: authenticateToken answers 401 and does not call the next handler
\* whenever the verified payload lacks any of user id, email or role: a request
\* with such a token gets 401 from the route and no controller step.
C23_IncompletePayloadRefused ==
  [][\A token \in GateTokens :
       Incomplete(token) =>
         /\ \/ tq' = tq
            \/ tq'[1] = TqDone("401")
            \/ ~\E body \in GateBodies : CreateTeamRoute(1, token, body)
         /\ \/ mq' = mq
            \/ mq'[1] = MqDone("401")
            \/ ~CreateMatchRoute(1, token, 0, MaxNow)]_vars

\* C22: updateMatch and deleteMatch take effect only when the requester is the
\* match's creator or has role admin: a request reaches its write only for such
\* a requester, and for any other requester of a stored match the answer is 403
\* and the match is unchanged.
C22_OnlyCreatorOrAdminChangesMatch ==
  /\ [](\A r \in Reqs :
          mq[r].pc \in {"update", "delete"} =>
            matches[mq[r].match].creator = mq[r].user \/ Role(mq[r].user) = "admin")
  /\ [][\A u \in Users, m \in MatchIds :
          Live(m) /\ matches[m].creator # u /\ Role(u) # "admin" =>
            \/ mq' = mq
            \/ matches' = matches /\ mq'[1] = MqDone("403")
            \/ ~(\/ DeleteMatchFind(1, u, m)
                 \/ \E st \in StatusInputs, mt \in BOOLEAN, c \in 0..MaxCap :
                      UpdateMatchFind(1, u, m, st, mt, c))]_vars
C22_Witness ==
  /\ mq[1].resp = "403"
  /\ \E m \in MatchIds : Live(m) /\ matches[m].status = "completed"

Join400 ==
  { "400 player name and contact info required", "400 match is already full",
    "400 already joined", "400 not upcoming", "400 started or passed" }

\* C24: joinMatch fails with 400 and leaves joinedPlayers unchanged whenever the
\* match's status is not upcoming or the match's date combined with its time is
\* earlier than the current time, whatever the capacity and the roster.
C24_JoinRefusedWhenNotUpcomingOrPassed ==
  [][\A u \in Users, m \in MatchIds :
       Live(m) /\ (matches[m].status # "upcoming" \/ matches[m].when < now) =>
         \/ mq' = mq
         \/ matches' = matches /\ mq'[1].resp \in Join400
         \/ ~\E ok \in BOOLEAN : JoinMatchFind(1, u, m, ok)]_vars

(***************************************************************************)
(* League rosters and the teams' current league.                           *)
(***************************************************************************)
\* C25: in every quiet state reached by joinLeague, deleteLeague and deleteTeam
\* requests, a team's currentLeague is L exactly when the team is in L's teams
\* roster, soft-deleted teams included.
C25_CurrentLeagueMatchesRoster ==
  ctl = "txn" /\ Quiet(lq) =>
    \A t \in TeamIds, l \in LeagueIds :
      teams[t].currentLeague = l <=> t \in Range(leagues[l].teams)

(***************************************************************************)
(* One roster per player.                                                  *)
(***************************************************************************)
RostersOf(u) == {t \in TeamIds : u \in Range(teams[t].players)}

\* C26: a user is in the players roster of at most one team, also once two
\* addPlayerToTeam requests for the same player and different teams have run
\* side by side and finished.
C26_OneRosterPerPlayer ==
  Quiet(lq) => \A u \in Users : Cardinality(RostersOf(u)) <= 1

(***************************************************************************)
(* Deleted teams and their players.                                        *)
(***************************************************************************)
\* deleteTeam has succeeded on the team: the document is marked inactive
Deleted(t) == teams[t].exists /\ ~teams[t].isActive

\* C27: after deleteTeam(id) has succeeded, whatever addPlayerToTeam requests
\* for that team ran beside it, once all requests have finished no user's team
\* is id; and addPlayerToTeam on a deleted team never succeeds.
C27_DeletedTeamHasNoPlayers ==
  /\ [](Quiet(lq) => \A t \in TeamIds : Deleted(t) => \A u \in Users : users[u].team # t)
  /\ [][\A r \in Reqs, t \in TeamIds, u \in Users :
          \/ lq' = lq
          \/ ~Deleted(t)
          \/ lq'[r].resp = "404 team"
          \/ ~AddPlayerTeamFind(r, t, u)]_vars

(***************************************************************************)
(* Reads after a deletion.                                                 *)
(***************************************************************************)
\* C28: after deleteTeam(id) has succeeded no later read returns the team:
\* getTeams omits it, getTeamById and getTeamStats answer 404.
C28_DeletedTeamNotRead ==
  [][\A t \in TeamIds :
       \/ tq' = tq
       \/ ~Deleted(t)
       \/ /\ GetTeams(1) => t \notin tq'[1].body
          /\ GetTeamById(1, t) \/ GetTeamStats(1, t) => tq'[1].resp = "404 team"]_vars

(***************************************************************************)
(* Names and emails of deleted teams.                                      *)
(***************************************************************************)
\* the teams that deleteTeam has not deleted
ActiveTeams == {t \in Stored : teams[t].isActive}

\* C29: after deleteTeam(id) the deleted team's name and email are free again:
\* createTeam is rejected as a duplicate, by either lookup or by the unique
\* index, only because of a team that has not been deleted.
C29_DeletedNameAndEmailFree ==
  [][/\ \A body \in CreateBodies :
          \/ tq' = tq
          \/ tq'[1].resp # "400 name exists"
          \/ \E t \in ActiveTeams : RegexTest(sanitizeTeamData(body).name, teams[t].name)
          \/ ~CreateTeamRegexFind(1, body)
     /\ tq[1].pc = "email" /\ tq'[1].resp = "400 email exists"
          => \E t \in ActiveTeams : teams[t].email = tq[1].email
     /\ tq[1].pc = "insert" /\ tq'[1].resp = "400 duplicate key"
          => \E t \in ActiveTeams : teams[t].name = SchemaName(tq[1].name)]_vars

(***************************************************************************)
(* Review counts.                                                          *)
(***************************************************************************)
\* C30: once all createReview requests for a ground have finished, whatever
\* their interleaving, the ground's reviewCount is the number of reviews stored
\* for that ground.
C30_ReviewCountMatchesReviews ==
  Quiet(gq) => \A g \in Grounds : grounds[g].reviewCount = Len(ReviewsOf(g))

====
